---- MODULE Spec2Model ----
\* Model of download_feeds.py: the batch loop of main, process_one_feed,
\* upsert_feed, upsert_feed_item and the enclosure download, over a sqlite
\* connection (committed content `db`, the connection's uncommitted view
\* `con`) and a file system (`files`).
EXTENDS Integers, Sequences, FiniteSets, TLC

\* ---------------------------------------------------------------- bounds
\* number of times the job is started (a scheduler runs main repeatedly)
MaxRuns == 2
\* number of chunks in the body of a non-empty enclosure
MaxChunks == 2
\* number of faults of the environment over all runs: a fetch or a request
\* that fails, a response that is no complete 200 response, a file removed
MaxFaults == 2
\* longest argument of safe_filename studied
MaxLen == 3
\* number of times safe_filename is applied in a row
MaxCalls == 2

\* ---------------------------------------------------------------- strings
\* A Python str is a sequence of one-character strings.
Alnum == {"a", "h", "A", "B", "x", "y", "z", "1"}

Whitespace == {" ", "\n", "\t"}

isalnum(c) == c \in Alnum

RECURSIVE rstrip(_)
rstrip(s) ==
    IF s = <<>> THEN s
    ELSE IF s[Len(s)] \in Whitespace THEN rstrip(SubSeq(s, 1, Len(s) - 1))
    ELSE s

RECURSIVE lstrip(_)
lstrip(s) ==
    IF s = <<>> THEN s
    ELSE IF s[1] \in Whitespace THEN lstrip(Tail(s))
    ELSE s

strip(s) == lstrip(rstrip(s))

startswith(s, p) == Len(s) >= Len(p) /\ SubSeq(s, 1, Len(p)) = p

KeepChar(c) == isalnum(c) \/ c \in {" ", ".", "_", "-"}

\* a bug that leaves the trailing white space
safe_filename_unstripped(fname) == SelectSeq(fname, KeepChar)

safe_filename(fname) == rstrip(SelectSeq(fname, KeepChar))

\* ---------------------------------------------------------------- dates
\* strptime(.., "%a, %d %b %Y %H:%M:%S %Z") on the texts the feeds use: the
\* texts that match the format, with isoformat() and strftime("%Y-%m-%d").
GoodDate == "Mon, 02 Jan 2023 10:00:00 GMT"
BadDate == "2023-01-02T10:00:00Z"

strptime_ok(text) == text = GoodDate

isoformat(text) == IF text = GoodDate THEN "2023-01-02T10:00:00" ELSE ""

strftime(text) == IF text = GoodDate THEN "2023-01-02" ELSE ""

\* ---------------------------------------------------------------- feeds
\* The feeds file given to main, one str per line.
FileUrl == <<"f", "i", "l", "e", ":", "/", "/", "a">>
HttpUrl == <<"h">>

FeedsFile ==
    << <<"#", " ", "h", "\n">>,
       FileUrl \o <<"\n">>,
       <<" ", "\n">>,
       <<" ">> \o HttpUrl \o <<"\n">> >>

\* An <item> element as xmltodict yields it. guid_attr: the <guid> has an
\* attribute, so that it parses to a dict with "#text" (a bare <guid> parses
\* to a str). season and duration: <<>> when the element is absent (None).
Item(guid, title, description, pubDate, season) ==
    [ guid |-> guid, guid_attr |-> TRUE, title |-> title,
      description |-> description, pubDate |-> pubDate,
      duration |-> <<>>,
      enclosure |-> [url |-> guid, length |-> "100", type |-> "audio/mpeg"],
      season |-> season ]

\* A feed text: wellformed (xmltodict.parse succeeds), has_title (the
\* channel has a <title>), and the channel's title and <item> elements.
Doc(title, items) ==
    [wellformed |-> TRUE, has_title |-> TRUE, title |-> title, item |-> items]

Malformed == [wellformed |-> FALSE, has_title |-> FALSE, title |-> <<>>, item |-> <<>>]

DocA ==
    Doc(<<"A">>, << Item("g1", <<"x">>, "d1", GoodDate, <<>>),
                    Item("g2", <<"y">>, "d1", GoodDate, <<>>) >>)

\* the same feed later: retitled, reordered, re-described, g1 in a season,
\* and a new item g3 whose title sanitizes to the file name of g2
DocA2 ==
    Doc(<<"A", ":">>, << Item("g2", <<"y", "?">>, "d2", GoodDate, <<>>),
                         Item("g1", <<"x">>, "d1", GoodDate, <<"1">>),
                         Item("g3", <<"y", "/", " ">>, "d1", GoodDate, <<>>) >>)

\* a date that does not match the format, in the second item
DocBadDate ==
    Doc(<<"A">>, << Item("g1", <<"x">>, "d1", GoodDate, <<>>),
                    Item("g2", <<"y">>, "d1", BadDate, <<>>) >>)

\* a single <item>: xmltodict yields a dict for it, not a list
DocOne == Doc(<<"A">>, << Item("g1", <<"x">>, "d1", GoodDate, <<>>) >>)

DocB ==
    Doc(<<"B">>, << Item("g1", <<"z">>, "d1", GoodDate, <<>>),
                    Item("g2", <<"y">>, "d1", GoodDate, <<>>) >>)

\* a channel without a <title>
DocNoTitle == [wellformed |-> TRUE, has_title |-> FALSE, title |-> <<>>, item |-> <<>>]

\* What a fetch of url can return.
Served(url) ==
    IF url = FileUrl
    THEN {DocA, DocA2, DocBadDate, DocOne, Malformed}
    ELSE {DocB, DocNoTitle}

NoDoc == Malformed

\* ---------------------------------------------------------------- paths
\* A pathlib.Path below the working directory: the feed directory, the
\* season directory (<<>> when there is none) and the file name
\* "<date> <name>.mp3". NULL is the SQL NULL of download_path.
NULL == [dir |-> <<>>, season |-> <<>>, date |-> "", name |-> <<>>]

CanonicalPath(title, item) ==
    [ dir |-> safe_filename(title),
      season |-> item.season,
      date |-> strftime(item.pubDate),
      name |-> rstrip(SelectSeq(item.title, KeepChar)) ]

\* ---------------------------------------------------------------- database
EmptyDb == [feed |-> {}, raw_feed |-> {}, feed_item |-> {}]

Max(S) == CHOOSE x \in S : \A y \in S : y <= x
Min(S) == CHOOSE x \in S : \A y \in S : x <= y

\* AUTOINCREMENT: one more than the largest id of the table (rows are never
\* deleted, and a rollback restores sqlite_sequence with the table).
NextId(ids) == IF ids = {} THEN 1 ELSE Max(ids) + 1

VARIABLES
    run,              \* number of runs of main started; also CURRENT_TIMESTAMP
    db_exists,        \* the database file exists
    db,               \* committed content of the database
    con,              \* content as the open connection sees it (uncommitted writes included)
    files,            \* the files below the working directory
    pc,               \* position of the program
    line,             \* index of the line of the feeds file main is at
    feed_url,         \* process_one_feed: feed_url
    feed,             \* process_one_feed: the fetched feed text / parsed document
    feed_id,          \* process_one_feed: feed_id
    idx,              \* process_one_feed: index of the item of the for loop
    feed_item_id,     \* process_one_feed: feed_item_id
    item_file,        \* process_one_feed: item_file
    item_res,         \* process_one_feed: item_res, the enclosure response
    bytes_downloaded, \* process_one_feed: bytes_downloaded, in chunks
    pre,              \* committed content when the current feed was started
    outcome,          \* per line of the feeds file, how this run's attempt ended
    gets,             \* number of enclosure requests this pass has issued
    fetched,          \* (feed_item_id, path) of the downloads this pass completed
    done,             \* (feed_url, guid) whose enclosure was ever downloaded in full
    faults,           \* number of faults of the environment so far
    fname,            \* safe_filename: the argument fname
    sanitized,        \* safe_filename: the value returned
    calls,            \* number of applications of safe_filename to fname so far
    sess,             \* per concurrent pass: position, result of the SELECT, connection
    lock,             \* the pass holding the write lock of the database file, or 0
    overlap           \* two passes were between SELECT and commit at the same time

vars == << run, db_exists, db, con, files, pc, line, feed_url, feed, feed_id, idx,
           feed_item_id, item_file, item_res, bytes_downloaded, pre, outcome,
           gets, fetched, done, faults,
           fname, sanitized, calls, sess, lock, overlap >>

\* the state of the study of safe_filename and of the concurrent passes
aux == << fname, sanitized, calls, sess, lock, overlap >>

locals == << feed_url, feed, feed_id, idx, feed_item_id, item_file, item_res,
             bytes_downloaded >>

NoRes == [status |-> 0, has_length |-> FALSE, numeric |-> FALSE, length |-> 0]

NoOutcome == [l \in 1..Len(FeedsFile) |-> "none"]

\* two passes over one database file
Sessions == {1, 2}

NoSess ==
    [s \in Sessions |->
        [pc |-> "idle", found |-> {}, con |-> EmptyDb, feed_id |-> 0, idx |-> 0,
         passes |-> 0]]

\* the program before main has run
InitMain ==
    /\ run = 0
    /\ db_exists = FALSE
    /\ db = EmptyDb
    /\ con = EmptyDb
    /\ files = {}
    /\ pc = "idle"
    /\ line = 0
    /\ feed_url = <<>>
    /\ feed = NoDoc
    /\ feed_id = 0
    /\ idx = 0
    /\ feed_item_id = 0
    /\ item_file = NULL
    /\ item_res = NoRes
    /\ bytes_downloaded = 0
    /\ pre = EmptyDb
    /\ outcome = NoOutcome
    /\ gets = 0
    /\ fetched = {}
    /\ done = {}
    /\ faults = 0

Init ==
    /\ InitMain
    /\ fname = <<>>
    /\ sanitized = <<>>
    /\ calls = 0
    /\ sess = NoSess
    /\ lock = 0
    /\ overlap = FALSE

\* the variables of the single pass, the committed database apart
others == << run, db_exists, con, files, pc, line, locals, pre, outcome, gets,
             fetched, done, faults >>

ResetLocals ==
    /\ feed_url' = <<>>
    /\ feed' = NoDoc
    /\ feed_id' = 0
    /\ idx' = 0
    /\ feed_item_id' = 0
    /\ item_file' = NULL
    /\ item_res' = NoRes
    /\ bytes_downloaded' = 0
    /\ gets' = 0
    /\ fetched' = {}

\* ---------------------------------------------------------------- files
exists(p) == \E f \in files : f.path = p

FileAt(p) == CHOOSE f \in files : f.path = p

\* A file is its path and whether the stream written to it came to its end
\* (whole) or was cut short. open(p, "wb") and the writes replace the file.
WriteFile(fs, p, whole) ==
    {f \in fs : f.path # p} \cup {[path |-> p, whole |-> whole]}

\* ---------------------------------------------------------------- upsert_feed
FeedIds(c) == {r.feed_id : r \in c.feed}

\* SELECT feed_id FROM feed WHERE feed_url = ?
FeedIdRecs(c, url) == {r.feed_id : r \in {x \in c.feed : x.feed_url = url}}

\* a bug that takes the id an INSERT would give also when the row exists
upsert_feed_id_fresh(c, url) == NextId(FeedIds(c))

\* feed_id: of the row found, or of the row inserted
upsert_feed_id(c, url) ==
    IF FeedIdRecs(c, url) = {} THEN NextId(FeedIds(c)) ELSE Min(FeedIdRecs(c, url))

\* a bug that inserts without looking the URL up
upsert_feed_rows_insert(c, url, title, now) ==
    c.feed \cup {[ feed_id |-> NextId(FeedIds(c)), date_added |-> now,
                   feed_url |-> url, title |-> title ]}

\* the feed table after the INSERT, or after the UPDATE of the title
upsert_feed_rows(c, url, title, now) ==
    IF FeedIdRecs(c, url) = {}
    THEN c.feed \cup {[ feed_id |-> NextId(FeedIds(c)), date_added |-> now,
                        feed_url |-> url, title |-> title ]}
    ELSE {IF r.feed_url = url THEN [r EXCEPT !.title = title] ELSE r : r \in c.feed}

\* a bug that keeps a snapshot only when the document changed
insert_raw_feed_if_changed(c, fid, channel_dict, now) ==
    IF \E r \in c.raw_feed : r.feed_id = fid /\ r.data = channel_dict
    THEN c.raw_feed
    ELSE c.raw_feed \cup {[ raw_feed_id |-> NextId({r.raw_feed_id : r \in c.raw_feed}),
                            feed_id |-> fid, date_added |-> now, data |-> channel_dict ]}

\* the raw_feed table after INSERT INTO raw_feed
insert_raw_feed(c, fid, channel_dict, now) ==
    c.raw_feed \cup {[ raw_feed_id |-> NextId({r.raw_feed_id : r \in c.raw_feed}),
                       feed_id |-> fid, date_added |-> now, data |-> channel_dict ]}

upsert_feed(c, url, title, channel_dict, now) ==
    [c EXCEPT !.feed = upsert_feed_rows(c, url, title, now),
              !.raw_feed = insert_raw_feed(c, upsert_feed_id(c, url), channel_dict, now)]

\* ---------------------------------------------------------------- upsert_feed_item
ItemIds(c) == {r.feed_item_id : r \in c.feed_item}

\* SELECT feed_item_id FROM feed_item WHERE feed_id = ? AND guid = ?
ItemIdRecs(c, fid, guid) ==
    {r.feed_item_id : r \in {x \in c.feed_item : x.feed_id = fid /\ x.guid = guid}}

upsert_feed_item_id(c, fid, guid) ==
    IF ItemIdRecs(c, fid, guid) = {}
    THEN NextId(ItemIds(c))
    ELSE Min(ItemIdRecs(c, fid, guid))

\* the row INSERTed for an item: download_path is not among its columns
NewItemRow(id, fid, item, now) ==
    [ feed_item_id |-> id, feed_id |-> fid, guid |-> item.guid, date_added |-> now,
      title |-> item.title, description |-> item.description,
      pub_date |-> isoformat(item.pubDate), itunes_duration |-> item.duration,
      enclosure_url |-> item.enclosure.url, enclosure_length |-> item.enclosure.length,
      enclosure_type |-> item.enclosure.type, itunes_season |-> item.season,
      download_path |-> NULL ]

\* a bug that replaces the whole row (REPLACE INTO), download_path included
ReplacedItemRow(r, item) == NewItemRow(r.feed_item_id, r.feed_id, item, r.date_added)

\* the row after UPDATE feed_item SET guid, title, ... WHERE feed_item_id = ?
UpdatedItemRow(r, item) ==
    [r EXCEPT !.guid = item.guid, !.title = item.title,
              !.description = item.description,
              !.pub_date = isoformat(item.pubDate),
              !.itunes_duration = item.duration,
              !.enclosure_url = item.enclosure.url,
              !.enclosure_length = item.enclosure.length,
              !.enclosure_type = item.enclosure.type,
              !.itunes_season = item.season]

upsert_feed_item(c, fid, item, now) ==
    IF ItemIdRecs(c, fid, item.guid) = {}
    THEN [c EXCEPT !.feed_item = @ \cup {NewItemRow(NextId(ItemIds(c)), fid, item, now)}]
    ELSE [c EXCEPT !.feed_item =
            {IF r.feed_item_id = Min(ItemIdRecs(c, fid, item.guid))
             THEN UpdatedItemRow(r, item) ELSE r : r \in @}]

\* SELECT download_path FROM feed_item WHERE feed_item_id = ?
download_path(c, id) == (CHOOSE r \in c.feed_item : r.feed_item_id = id).download_path

\* a bug that records the path below feed_dir instead of item_dir
set_download_path_feed_dir(c, id, p) ==
    [c EXCEPT !.feed_item =
        {IF r.feed_item_id = id
         THEN [r EXCEPT !.download_path = [p EXCEPT !.season = <<>>]]
         ELSE r : r \in @}]

\* UPDATE feed_item SET download_path = ? WHERE feed_item_id = ?
set_download_path(c, id, p) ==
    [c EXCEPT !.feed_item =
        {IF r.feed_item_id = id THEN [r EXCEPT !.download_path = p] ELSE r : r \in @}]

\* a bug that always computes the path from the current metadata
ResolvePathCanonical(stored, title, item) == CanonicalPath(title, item)

\* item_file: the stored path when there is one, else the canonical path
ResolvePath(stored, title, item) ==
    IF stored = NULL THEN CanonicalPath(title, item) ELSE stored

\* ---------------------------------------------------------------- main
\* main starts: get_database creates the tables when the file is absent
\* and opens the connection.
StartRun ==
    /\ pc = "idle"
    /\ run < MaxRuns
    /\ run' = run + 1
    /\ db_exists' = TRUE
    /\ db' = IF db_exists THEN db ELSE EmptyDb
    /\ con' = db'
    /\ line' = 1
    /\ pc' = "next_line"
    /\ outcome' = NoOutcome
    /\ UNCHANGED << files, locals, pre, gets, fetched, done, faults >>
    /\ UNCHANGED aux

IsFeedLine(l) == strip(l) # <<>> /\ ~startswith(strip(l), <<"#">>)

\* a blank line or a comment line is passed over
SkipLine ==
    /\ pc = "next_line"
    /\ line <= Len(FeedsFile)
    /\ ~IsFeedLine(FeedsFile[line])
    /\ line' = line + 1
    /\ outcome' = [outcome EXCEPT ![line] = "skipped"]
    /\ UNCHANGED << run, db_exists, db, con, files, pc, locals, pre, gets, fetched, done, faults >>
    /\ UNCHANGED aux

\* process_one_feed is entered and get_feed_xml returns the text or raises
GetFeedXml ==
    /\ pc = "next_line"
    /\ line <= Len(FeedsFile)
    /\ IsFeedLine(FeedsFile[line])
    /\ feed_url' = strip(FeedsFile[line])
    /\ pre' = db
    /\ \/ /\ \E xml \in Served(strip(FeedsFile[line])) : feed' = xml
          /\ pc' = "parse"
          /\ faults' = faults
       \/ /\ faults < MaxFaults
          /\ feed' = NoDoc
          /\ pc' = "except"
          /\ faults' = faults + 1
    /\ UNCHANGED << run, db_exists, db, con, files, line, feed_id, idx, feed_item_id,
                    item_file, item_res, bytes_downloaded, outcome, gets, fetched, done >>
    /\ UNCHANGED aux

\* xmltodict.parse, feed["rss"]["channel"], channel["title"]
ParseFeed ==
    /\ pc = "parse"
    /\ pc' = IF feed.wellformed /\ feed.has_title THEN "upsert_feed" ELSE "except"
    /\ UNCHANGED << run, db_exists, db, con, files, line, locals, pre, outcome, gets,
                    fetched, done, faults >>
    /\ UNCHANGED aux

\* upsert_feed, then the feed directory is made
UpsertFeed ==
    /\ pc = "upsert_feed"
    /\ feed_id' = upsert_feed_id(con, feed_url)
    /\ con' = upsert_feed(con, feed_url, feed.title, feed, run)
    /\ idx' = 1
    /\ pc' = "items"
    /\ UNCHANGED << run, db_exists, db, files, line, feed_url, feed, feed_item_id,
                    item_file, item_res, bytes_downloaded, pre, outcome, gets, fetched,
                    done, faults >>
    /\ UNCHANGED aux

\* channel["item"] is a list only when the channel has two items or more:
\* with none the key is absent, with one it is a dict whose keys are str
ItemsIterable == Len(feed.item) >= 2

ItemsNotAList ==
    /\ pc = "items"
    /\ ~ItemsIterable
    /\ pc' = "except"
    /\ UNCHANGED << run, db_exists, db, con, files, line, locals, pre, outcome, gets,
                    fetched, done, faults >>
    /\ UNCHANGED aux

\* the fields of the item read before upsert_feed_item is called
ItemFieldsOk(item) == strptime_ok(item.pubDate) /\ item.guid_attr

\* a variant that passes over the item whose fields cannot be read
ItemFieldSkips ==
    /\ pc = "items"
    /\ ItemsIterable
    /\ idx <= Len(feed.item)
    /\ ~ItemFieldsOk(feed.item[idx])
    /\ idx' = idx + 1
    /\ UNCHANGED << run, db_exists, db, con, files, pc, line, feed_url, feed, feed_id,
                    feed_item_id, item_file, item_res, bytes_downloaded, pre, outcome,
                    gets, fetched, done, faults >>
    /\ UNCHANGED aux

\* strptime or item["guid"]["#text"] raises
ItemFieldFails ==
    /\ pc = "items"
    /\ ItemsIterable
    /\ idx <= Len(feed.item)
    /\ ~ItemFieldsOk(feed.item[idx])
    /\ pc' = "except"
    /\ UNCHANGED << run, db_exists, db, con, files, line, locals, pre, outcome, gets,
                    fetched, done, faults >>
    /\ UNCHANGED aux

\* upsert_feed_item, the SELECT of download_path and the choice of item_file
UpsertItem ==
    /\ pc = "items"
    /\ ItemsIterable
    /\ idx <= Len(feed.item)
    /\ ItemFieldsOk(feed.item[idx])
    /\ feed_item_id' = upsert_feed_item_id(con, feed_id, feed.item[idx].guid)
    /\ con' = upsert_feed_item(con, feed_id, feed.item[idx], run)
    /\ item_file' = ResolvePath(download_path(con', feed_item_id'), feed.title,
                                feed.item[idx])
    /\ pc' = "exists"
    /\ UNCHANGED << run, db_exists, db, files, line, feed_url, feed, feed_id, idx,
                    item_res, bytes_downloaded, pre, outcome, gets, fetched, done, faults >>
    /\ UNCHANGED aux

\* a bug that trusts the stored download_path instead of the file system
ShouldDownloadIfUnrecorded == download_path(con, feed_item_id) = NULL

\* if not item_file.exists()
ShouldDownload == ~exists(item_file)

NextItem ==
    /\ idx' = idx + 1
    /\ feed_item_id' = 0
    /\ item_file' = NULL
    /\ item_res' = NoRes
    /\ bytes_downloaded' = 0
    /\ pc' = "items"

\* a variant that records the path of a file it finds
SkipDownloadRecords ==
    /\ pc = "exists"
    /\ ~ShouldDownload
    /\ con' = set_download_path(con, feed_item_id, item_file)
    /\ NextItem
    /\ UNCHANGED << run, db_exists, db, files, line, feed_url, feed, feed_id, pre,
                    outcome, gets, fetched, done, faults >>
    /\ UNCHANGED aux

\* item_file.exists(): the download is skipped
SkipDownload ==
    /\ pc = "exists"
    /\ ~ShouldDownload
    /\ NextItem
    /\ UNCHANGED << run, db_exists, db, con, files, line, feed_url, feed, feed_id, pre,
                    outcome, gets, fetched, done, faults >>
    /\ UNCHANGED aux

\* requests.get raises (no connection)
RequestFails ==
    /\ pc = "exists"
    /\ ShouldDownload
    /\ faults < MaxFaults
    /\ faults' = faults + 1
    /\ gets' = gets + 1
    /\ pc' = "except"
    /\ UNCHANGED << run, db_exists, db, con, files, line, locals, pre, outcome, fetched,
                    done >>
    /\ UNCHANGED aux

\* The responses a server can give: any status; content-length absent, not a
\* number, or the number of chunks of the body.
Responses ==
    {r \in [status : {200, 404}, has_length : BOOLEAN, numeric : BOOLEAN,
             length : {0, MaxChunks}] :
        \/ r.has_length /\ r.numeric
        \/ ~r.numeric /\ r.length = 0}

\* int(item_res.headers["content-length"]) succeeds
LengthOk(r) == r.has_length /\ r.numeric

\* a 200 response with a body and its length
GoodResponse(r) == r.status = 200 /\ LengthOk(r) /\ r.length > 0

\* requests.get returns, the content-length is read, the file is opened
StartDownload ==
    /\ pc = "exists"
    /\ ShouldDownload
    /\ gets' = gets + 1
    /\ \E r \in Responses :
        /\ GoodResponse(r) \/ faults < MaxFaults
        /\ faults' = IF GoodResponse(r) THEN faults ELSE faults + 1
        /\ item_res' = r
        /\ IF LengthOk(r)
           THEN /\ files' = WriteFile(files, item_file, FALSE)
                /\ pc' = "stream"
           ELSE /\ files' = files
                /\ pc' = "except"
    /\ bytes_downloaded' = 0
    /\ UNCHANGED << run, db_exists, db, con, line, feed_url, feed, feed_id, idx,
                    feed_item_id, item_file, pre, outcome, fetched, done >>
    /\ UNCHANGED aux

\* one chunk of iter_content is written
WriteChunk ==
    /\ pc = "stream"
    /\ bytes_downloaded < item_res.length
    /\ bytes_downloaded' = bytes_downloaded + 1
    /\ files' = WriteFile(files, item_file, FALSE)
    /\ UNCHANGED << run, db_exists, db, con, pc, line, feed_url, feed, feed_id, idx,
                    feed_item_id, item_file, item_res, pre, outcome, gets, fetched, done, faults >>
    /\ UNCHANGED aux

\* a variant that removes the partial file when the stream breaks
StreamInterruptedCleans ==
    /\ pc = "stream"
    /\ bytes_downloaded < item_res.length
    /\ faults < MaxFaults
    /\ faults' = faults + 1
    /\ files' = {f \in files : f.path # item_file}
    /\ pc' = "except"
    /\ UNCHANGED << run, db_exists, db, con, line, locals, pre, outcome, gets, fetched,
                    done >>
    /\ UNCHANGED aux

\* iter_content raises before the body is complete
StreamInterrupted ==
    /\ pc = "stream"
    /\ bytes_downloaded < item_res.length
    /\ faults < MaxFaults
    /\ faults' = faults + 1
    /\ pc' = "except"
    /\ UNCHANGED << run, db_exists, db, con, files, line, locals, pre, outcome, gets,
                    fetched, done >>
    /\ UNCHANGED aux

\* The body is complete and the file is closed. The last log line divides by
\* the expected bytes and by the elapsed time, both 0 when no chunk came.
EmptyDownload ==
    /\ pc = "stream"
    /\ bytes_downloaded = item_res.length
    /\ bytes_downloaded = 0
    /\ files' = WriteFile(files, item_file, TRUE)
    /\ pc' = "except"
    /\ UNCHANGED << run, db_exists, db, con, line, locals, pre, outcome, gets, fetched,
                    done, faults >>
    /\ UNCHANGED aux

\* The body is complete, the file is closed, download_path is written.
FinishDownload ==
    /\ pc = "stream"
    /\ bytes_downloaded = item_res.length
    /\ bytes_downloaded > 0
    /\ files' = WriteFile(files, item_file, TRUE)
    /\ con' = set_download_path(con, feed_item_id, item_file)
    /\ fetched' = fetched \cup {[feed_item_id |-> feed_item_id, path |-> item_file]}
    /\ done' = IF item_res.status = 200
               THEN done \cup {[feed_url |-> feed_url, guid |-> feed.item[idx].guid]}
               ELSE done
    /\ NextItem
    /\ UNCHANGED << run, db_exists, db, line, feed_url, feed, feed_id, pre, outcome, gets,
                    faults >>
    /\ UNCHANGED aux

\* a bug that leaves the commit to the end of the batch
CommitDeferred ==
    /\ pc = "items"
    /\ ItemsIterable
    /\ idx > Len(feed.item)
    /\ outcome' = [outcome EXCEPT ![line] = "ok"]
    /\ line' = line + 1
    /\ pc' = "next_line"
    /\ ResetLocals
    /\ UNCHANGED << run, db_exists, db, con, files, pre, done, faults >>
    /\ UNCHANGED aux

\* the for loop over the items ends; main commits
Commit ==
    /\ pc = "items"
    /\ ItemsIterable
    /\ idx > Len(feed.item)
    /\ db' = con
    /\ outcome' = [outcome EXCEPT ![line] = "ok"]
    /\ line' = line + 1
    /\ pc' = "next_line"
    /\ ResetLocals
    /\ UNCHANGED << run, db_exists, con, files, pre, done, faults >>
    /\ UNCHANGED aux

\* a bug that lets the exception of one feed end the batch
ExceptAborts ==
    /\ pc = "except"
    /\ con' = db
    /\ outcome' = [outcome EXCEPT ![line] = "failed"]
    /\ line' = Len(FeedsFile) + 1
    /\ pc' = "next_line"
    /\ ResetLocals
    /\ UNCHANGED << run, db_exists, db, files, pre, done, faults >>
    /\ UNCHANGED aux

\* a bug that logs the error and does not roll back
ExceptNoRollback ==
    /\ pc = "except"
    /\ outcome' = [outcome EXCEPT ![line] = "failed"]
    /\ line' = line + 1
    /\ pc' = "next_line"
    /\ ResetLocals
    /\ UNCHANGED << run, db_exists, db, con, files, pre, done, faults >>
    /\ UNCHANGED aux

\* main's handler: the error is logged and the transaction rolled back
Except ==
    /\ pc = "except"
    /\ con' = db
    /\ outcome' = [outcome EXCEPT ![line] = "failed"]
    /\ line' = line + 1
    /\ pc' = "next_line"
    /\ ResetLocals
    /\ UNCHANGED << run, db_exists, db, files, pre, done, faults >>
    /\ UNCHANGED aux

\* the lines are exhausted: the with block of main commits and main returns
EndRun ==
    /\ pc = "next_line"
    /\ line > Len(FeedsFile)
    /\ db' = con
    /\ pc' = "idle"
    /\ line' = 0
    /\ pre' = con
    /\ outcome' = NoOutcome
    /\ UNCHANGED << run, db_exists, con, files, locals, gets, fetched, done, faults >>
    /\ UNCHANGED aux

\* between runs a file is removed from outside the program
RemoveFile ==
    /\ pc = "idle"
    /\ faults < MaxFaults
    /\ faults' = faults + 1
    /\ \E f \in files : files' = files \ {f}
    /\ UNCHANGED << run, db_exists, db, con, pc, line, locals, pre, outcome, gets, fetched,
                    done >>
    /\ UNCHANGED aux

Next ==
    \/ StartRun
    \/ SkipLine
    \/ GetFeedXml
    \/ ParseFeed
    \/ UpsertFeed
    \/ ItemsNotAList
    \/ ItemFieldFails
    \/ UpsertItem
    \/ SkipDownload
    \/ RequestFails
    \/ StartDownload
    \/ WriteChunk
    \/ StreamInterrupted
    \/ EmptyDownload
    \/ FinishDownload
    \/ Commit
    \/ Except
    \/ EndRun
    \/ RemoveFile

Spec == Init /\ [][Next]_vars

\* the program alone: nothing outside it removes a file
NextNoRemoval ==
    \/ StartRun
    \/ SkipLine
    \/ GetFeedXml
    \/ ParseFeed
    \/ UpsertFeed
    \/ ItemsNotAList
    \/ ItemFieldFails
    \/ UpsertItem
    \/ SkipDownload
    \/ RequestFails
    \/ StartDownload
    \/ WriteChunk
    \/ StreamInterrupted
    \/ EmptyDownload
    \/ FinishDownload
    \/ Commit
    \/ Except
    \/ EndRun

SpecNoRemoval == Init /\ [][NextNoRemoval]_vars

\* ================================================================ properties
\* the step in which main commits a feed, and the one in which it handles
\* the exception of a feed
\* ---------------------------------------------------------------- safe_filename alone
\* the characters of the arguments: kept ones, white space, and the
\* characters file systems refuse
SanChars == {"a", "1", " ", "\t", ".", "_", "-", "/", ":", "*", "?", "\"", "<", ">", "|"}

SanInputs == UNION {[1..n -> SanChars] : n \in 0..MaxLen}

SanInit ==
    /\ InitMain
    /\ fname \in SanInputs
    /\ sanitized = <<>>
    /\ calls = 0
    /\ sess = NoSess
    /\ lock = 0
    /\ overlap = FALSE

\* safe_filename(fname), and then safe_filename of what it returned
Sanitize ==
    /\ calls < MaxCalls
    /\ sanitized' = safe_filename(IF calls = 0 THEN fname ELSE sanitized)
    /\ calls' = calls + 1
    /\ UNCHANGED << db, others, fname, sess, lock, overlap >>

SanNext == Sanitize

SanSpec == SanInit /\ [][SanNext]_vars

\* ---------------------------------------------------------------- two passes at once
\* the feed both passes ingest
ConcUrl == strip(FeedsFile[2])
ConcDoc == DocA

\* a bug that inserts whatever the SELECT returned
feed_rows_given_insert(c, found, url, title, now) ==
    c.feed \cup {[ feed_id |-> NextId(FeedIds(c)), date_added |-> now,
                   feed_url |-> url, title |-> title ]}

\* the feed table after the INSERT or the UPDATE upsert_feed chooses from the
\* result of its SELECT, the statement running on the content c
feed_rows_given(c, found, url, title, now) ==
    IF found = {}
    THEN c.feed \cup {[ feed_id |-> NextId(FeedIds(c)), date_added |-> now,
                        feed_url |-> url, title |-> title ]}
    ELSE {IF r.feed_url = url THEN [r EXCEPT !.title = title] ELSE r : r \in c.feed}

\* feed_id: RETURNING feed_id of the INSERT, or feed_id_rec[0]
feed_id_given(c, found) == IF found = {} THEN NextId(FeedIds(c)) ELSE Min(found)

\* the SELECT of upsert_feed runs outside a transaction and reads the
\* committed content
SessSelect(s) ==
    /\ sess[s].pc = "idle"
    /\ sess[s].passes < MaxRuns
    /\ sess' = [sess EXCEPT ![s].pc = "selected",
                            ![s].found = FeedIdRecs(db, ConcUrl),
                            ![s].passes = @ + 1]
    /\ overlap' = (overlap \/ \E o \in Sessions \ {s} : sess[o].pc # "idle")
    /\ UNCHANGED << db, others, fname, sanitized, calls, lock >>

\* the INSERT or UPDATE opens the transaction and takes the write lock; the
\* INSERT INTO raw_feed follows
SessUpsertFeed(s) ==
    /\ sess[s].pc = "selected"
    /\ lock = 0
    /\ lock' = s
    /\ LET found == sess[s].found
           fid == feed_id_given(db, found)
           c == [db EXCEPT
                   !.feed = feed_rows_given(db, found, ConcUrl, ConcDoc.title,
                                            sess[s].passes),
                   !.raw_feed = insert_raw_feed(db, fid, ConcDoc, sess[s].passes)]
       IN sess' = [sess EXCEPT ![s].pc = "items", ![s].con = c,
                               ![s].feed_id = fid, ![s].idx = 1]
    /\ UNCHANGED << db, others, fname, sanitized, calls, overlap >>

\* the other pass holds the lock for longer than the timeout:
\* OperationalError, and main rolls back
SessBusy(s) ==
    /\ sess[s].pc = "selected"
    /\ lock \notin {0, s}
    /\ sess' = [sess EXCEPT ![s].pc = "idle", ![s].found = {}]
    /\ UNCHANGED << db, others, fname, sanitized, calls, lock, overlap >>

\* upsert_feed_item, inside the transaction
SessUpsertItem(s) ==
    /\ sess[s].pc = "items"
    /\ lock = s
    /\ sess[s].idx <= Len(ConcDoc.item)
    /\ sess' = [sess EXCEPT
                  ![s].con = upsert_feed_item(@, sess[s].feed_id,
                                              ConcDoc.item[sess[s].idx], sess[s].passes),
                  ![s].idx = @ + 1]
    /\ UNCHANGED << db, others, fname, sanitized, calls, lock, overlap >>

\* con.commit()
SessCommit(s) ==
    /\ sess[s].pc = "items"
    /\ lock = s
    /\ sess[s].idx > Len(ConcDoc.item)
    /\ db' = sess[s].con
    /\ lock' = 0
    /\ sess' = [sess EXCEPT ![s] = [NoSess[s] EXCEPT !.passes = sess[s].passes]]
    /\ UNCHANGED << others, fname, sanitized, calls, overlap >>

ConcNext ==
    \E s \in Sessions :
        \/ SessSelect(s)
        \/ SessUpsertFeed(s)
        \/ SessBusy(s)
        \/ SessUpsertItem(s)
        \/ SessCommit(s)

ConcSpec == Init /\ [][ConcNext]_vars

CommitStep == pc = "items" /\ pc' = "next_line"
ExceptStep == pc = "except" /\ pc' = "next_line"

\* the committed rows of the episode guid of the feed fid
Episodes(d, fid, guid) == {r \in d.feed_item : r.feed_id = fid /\ r.guid = guid}

\* the url of the feed a committed episode row belongs to
UrlOf(d, r) == (CHOOSE f \in d.feed : f.feed_id = r.feed_id).feed_url

\* C1: per-feed atomicity. When a feed has failed and main's handler has run,
\* the committed database is what it was when the feed was started, and the
\* connection holds no write of the failed feed that a later commit could
\* make durable.
C1_AtomicOnFailure ==
    (pc = "next_line" /\ line > 1 /\ outcome[line - 1] = "failed")
        => (db = pre /\ con = pre)

\* a feed failed after a download of it had completed and been written to
\* the connection, and nothing of it is committed
C1_Witness ==
    /\ pc = "next_line"
    /\ line = 3
    /\ outcome[2] = "failed"
    /\ done # {}
    /\ db.feed = {}
    /\ con = db

\* C2: feed isolation. The step that ends a feed without failure leaves its
\* feed row, one episode row per item and the path of every download of the
\* pass committed; the step that ends a failed feed leaves the committed
\* database as it is; no step removes a committed row or changes its key.
C2_FeedIsolation ==
    [][ /\ CommitStep =>
            /\ \E r \in db'.feed :
                  r.feed_id = feed_id /\ r.feed_url = feed_url /\ r.title = feed.title
            /\ \A i \in 1..Len(feed.item) :
                  Episodes(db', feed_id, feed.item[i].guid) # {}
            /\ \A d \in fetched :
                  \E r \in db'.feed_item :
                      r.feed_item_id = d.feed_item_id /\ r.download_path = d.path
        /\ ExceptStep => db' = db
        /\ \A r \in db.feed :
              \E q \in db'.feed : q.feed_id = r.feed_id /\ q.feed_url = r.feed_url
        /\ \A r \in db.feed_item :
              \E q \in db'.feed_item :
                  /\ q.feed_item_id = r.feed_item_id
                  /\ q.feed_id = r.feed_id
                  /\ q.guid = r.guid
                  /\ r.download_path # NULL => q.download_path = r.download_path
        /\ db.raw_feed \subseteq db'.raw_feed
      ]_vars

\* in one run the first feed failed, the second was ingested with its two
\* downloads recorded
C2_Witness ==
    /\ pc = "next_line"
    /\ line = 5
    /\ outcome[2] = "failed"
    /\ outcome[4] = "ok"
    /\ Cardinality({r \in db.feed_item :
                        UrlOf(db, r) = HttpUrl /\ r.download_path # NULL}) = 2

\* C3: download-path completeness. When a pass over a feed commits, every
\* episode of the feed whose enclosure was ever downloaded in full has a
\* non-null download_path in the committed database.
C3_PathComplete ==
    [][ CommitStep =>
            \A i \in 1..Len(feed.item) :
                [feed_url |-> feed_url, guid |-> feed.item[i].guid] \in done
                    => \E r \in Episodes(db', feed_id, feed.item[i].guid) :
                            r.download_path # NULL
      ]_vars

\* C4: download-path soundness. A committed non-null download_path belongs to
\* an episode whose enclosure was downloaded in full from a successful
\* response.
C4_PathSound ==
    \A r \in db.feed_item :
        r.download_path # NULL
            => [feed_url |-> UrlOf(db, r), guid |-> r.guid] \in done

\* C5: download monotonicity. No step clears or changes a committed non-null
\* download_path, whatever the pass does or however it ends.
C5_PathMonotone ==
    [][ \A r \in db.feed_item :
            r.download_path # NULL
                => \E q \in db'.feed_item :
                        /\ q.feed_item_id = r.feed_item_id
                        /\ q.download_path = r.download_path
      ]_vars

\* an episode with a committed path is downloaded again, to the stored path,
\* while its metadata now gives another canonical path
C5_Witness ==
    /\ pc = "stream"
    /\ \E r \in db.feed_item :
          /\ r.feed_item_id = feed_item_id
          /\ r.download_path # NULL
          /\ r.download_path = item_file
    /\ item_file # CanonicalPath(feed.title, feed.item[idx])

\* the steps of upsert_feed and of upsert_feed_item
UpsertFeedStep == pc = "upsert_feed" /\ pc' = "items"
UpsertItemStep == pc = "items" /\ pc' = "exists"

\* C6: feed uniqueness under re-ingestion. The feed table, committed or as
\* the connection sees it, never holds two rows of one URL; upsert_feed on a
\* URL that has a row returns that row's feed_id, puts the parsed title in
\* that row, adds no feed row, and adds exactly one raw_feed row, of that
\* feed_id.
C6_FeedUnique ==
    [][ /\ \A a, b \in con'.feed : a.feed_url = b.feed_url => a = b
        /\ \A a, b \in db'.feed : a.feed_url = b.feed_url => a = b
        /\ (UpsertFeedStep /\ \E r \in con.feed : r.feed_url = feed_url) =>
              /\ \E r \in con.feed : r.feed_url = feed_url /\ r.feed_id = feed_id'
              /\ \E r \in con'.feed :
                    r.feed_url = feed_url /\ r.feed_id = feed_id' /\ r.title = feed.title
              /\ Cardinality(con'.feed) = Cardinality(con.feed)
              /\ con.raw_feed \subseteq con'.raw_feed
              /\ Cardinality(con'.raw_feed \ con.raw_feed) = 1
              /\ \A r \in con'.raw_feed \ con.raw_feed : r.feed_id = feed_id'
      ]_vars

\* upsert_feed has run on a URL whose committed row has another title
C6_Witness ==
    /\ pc = "items"
    /\ idx = 1
    /\ \E r \in db.feed : r.feed_url = feed_url /\ r.title # feed.title
    /\ \E r \in con.feed : r.feed_url = feed_url /\ r.title = feed.title

\* the columns upsert_feed_item writes from its arguments
SameMetadata(r, item) ==
    /\ r.guid = item.guid
    /\ r.title = item.title
    /\ r.description = item.description
    /\ r.pub_date = isoformat(item.pubDate)
    /\ r.itunes_duration = item.duration
    /\ r.enclosure_url = item.enclosure.url
    /\ r.enclosure_length = item.enclosure.length
    /\ r.enclosure_type = item.enclosure.type
    /\ r.itunes_season = item.season

\* C7: idempotent episode reconciliation. After each call of
\* upsert_feed_item there is exactly one row of (feed_id, guid); it holds
\* the metadata of this call; the id returned is the id of that row, the
\* same as the row of the pair had before; its download_path is NULL when
\* the row is new and what it was otherwise; the other rows are untouched.
C7_EpisodeIdempotent ==
    [][ UpsertItemStep =>
          LET item == feed.item[idx]
              before == Episodes(con, feed_id, item.guid)
              after == Episodes(con', feed_id, item.guid)
          IN /\ Cardinality(after) = 1
             /\ \A r \in after :
                   /\ SameMetadata(r, item)
                   /\ r.feed_item_id = feed_item_id'
                   /\ before = {} => r.download_path = NULL
                   /\ \A q \in before :
                         /\ q.feed_item_id = r.feed_item_id
                         /\ q.download_path = r.download_path
             /\ con.feed_item \ before = con'.feed_item \ after
      ]_vars

\* upsert_feed_item has run on a committed episode with a recorded path and
\* another title
C7_Witness ==
    /\ pc = "exists"
    /\ \E r \in db.feed_item :
          /\ r.feed_item_id = feed_item_id
          /\ r.feed_id = feed_id
          /\ r.guid = feed.item[idx].guid
          /\ r.title # feed.item[idx].title
          /\ r.download_path # NULL

\* C8: skip-if-present. At the existence test item_file is the stored
\* download_path when there is one and the canonical path otherwise; when a
\* file exists there, the step issues no request for the enclosure, writes
\* no file and goes on to the next item.
C8_SkipIfPresent ==
    [][ /\ pc = "exists" =>
              item_file = IF download_path(con, feed_item_id) # NULL
                          THEN download_path(con, feed_item_id)
                          ELSE CanonicalPath(feed.title, feed.item[idx])
        /\ (pc = "exists" /\ exists(item_file)) =>
              /\ gets' = gets
              /\ files' = files
              /\ pc' = "items"
              /\ idx' = idx + 1
      ]_vars

\* the first item of a feed was passed over, without a request, for a file
\* at its canonical path that the store does not record
C8_Witness ==
    /\ pc = "items"
    /\ idx = 2
    /\ gets = 0
    /\ exists(CanonicalPath(feed.title, feed.item[1]))
    /\ \E r \in Episodes(con, feed_id, feed.item[1].guid) : r.download_path = NULL

\* C9 as stated: every pass in which fetch and parse succeed adds exactly one
\* raw_feed row to the committed database, whatever happens later in the pass.
C9_SnapshotPerParse ==
    [][ ((CommitStep \/ ExceptStep) /\ feed.wellformed /\ feed.has_title)
            => Cardinality(db'.raw_feed) = Cardinality(db.raw_feed) + 1
      ]_vars

\* C9 amended: a pass that commits adds exactly one raw_feed row to the
\* committed database, of the feed and with the parsed document, whether or
\* not the document changed; no other step adds one; no step modifies or
\* deletes a committed raw_feed row.
C9_SnapshotPerCommit ==
    [][ /\ db.raw_feed \subseteq db'.raw_feed
        /\ CommitStep =>
              /\ Cardinality(db'.raw_feed \ db.raw_feed) = 1
              /\ \A r \in db'.raw_feed \ db.raw_feed :
                    r.feed_id = feed_id /\ r.data = feed
        /\ ~CommitStep => db'.raw_feed = db.raw_feed
      ]_vars

\* two committed snapshots of one feed hold the same document
C9_Witness ==
    \E a, b \in db.raw_feed :
        a.raw_feed_id # b.raw_feed_id /\ a.feed_id = b.feed_id /\ a.data = b.data

\* C10: failed download, then retry. The step in which the stream breaks
\* leaves the part written so far on disk; main's handler then discards the
\* writes of the feed, so that no download_path of the pass is committed, and
\* removes no file; a later existence test that finds a file that was cut
\* short issues no request, leaves the file and the stored download_path as
\* they are and goes on to the next item.
C10_PartialFileKept ==
    [][ /\ (pc = "stream" /\ pc' = "except" /\ bytes_downloaded < item_res.length) =>
              /\ files' = files
              /\ \E f \in files' : f.path = item_file /\ ~f.whole
        /\ ExceptStep => (files' = files /\ db' = db /\ con' = db)
        /\ (pc = "exists" /\ \E f \in files : f.path = item_file /\ ~f.whole) =>
              /\ gets' = gets
              /\ files' = files
              /\ con' = con
              /\ pc' = "items"
      ]_vars

\* in a later run the first item of a feed was passed over for the file a
\* broken stream left at its path, and its download_path is unset
C10_Witness ==
    /\ run = 2
    /\ pc = "items"
    /\ idx = 2
    /\ gets = 0
    /\ \E f \in files :
          f.path = CanonicalPath(feed.title, feed.item[1]) /\ ~f.whole
    /\ \E r \in Episodes(con, feed_id, feed.item[1].guid) : r.download_path = NULL

\* C11: end-to-end single-item scenario. A pass over a document with exactly
\* one item commits, with one feed row of the channel title, an episode row
\* of the item's guid whose download_path is the canonical path, and the
\* whole file at that path.
C11_SingleItemIngested ==
    [][ ((CommitStep \/ ExceptStep) /\ feed.wellformed /\ feed.has_title
            /\ Len(feed.item) = 1) =>
          /\ CommitStep
          /\ Cardinality({r \in db'.feed :
                            r.feed_url = feed_url /\ r.title = feed.title}) = 1
          /\ \E r \in db'.feed_item :
                /\ r.guid = feed.item[1].guid
                /\ r.download_path = CanonicalPath(feed.title, feed.item[1])
          /\ \E f \in files' :
                f.path = CanonicalPath(feed.title, feed.item[1]) /\ f.whole
      ]_vars

\* the states in which process_one_feed is at work on a feed
InFeed(p) == p \in {"parse", "upsert_feed", "items", "exists", "stream", "except"}

\* the path process_one_feed resolves for the item i of the feed at hand
ResolvedFor(c, i) ==
    LET rows == Episodes(c, feed_id, feed.item[i].guid)
    IN IF \E r \in rows : r.download_path # NULL
       THEN (CHOOSE r \in rows : r.download_path # NULL).download_path
       ELSE CanonicalPath(feed.title, feed.item[i])

\* C12: processing order. In a run the lines before the current one, and
\* only they, have been handled, the feed lines attempted and the others
\* passed over; the line index moves one line at a time; main is between
\* feeds only with no write pending on the connection; the feed at work is
\* the one of the current line; the items are taken from the first on, one
\* index at a time, the row upserted is the one of the item at the index, and
\* when an item is upserted every item before it has its row and a file at
\* its path.
C12_ProcessingOrder ==
    [][ /\ pc' # "idle" =>
              \A l \in 1..Len(FeedsFile) :
                  /\ (l < line') <=> (outcome'[l] # "none")
                  /\ l < line' =>
                        ((outcome'[l] = "skipped") <=> ~IsFeedLine(FeedsFile[l]))
        /\ (pc # "idle" /\ pc' # "idle") => line' \in {line, line + 1}
        /\ pc' = "next_line" => con' = db'
        /\ InFeed(pc') => (line' = line /\ feed_url' = strip(FeedsFile[line']))
        /\ UpsertFeedStep => idx' = 1
        /\ UpsertItemStep =>
              /\ idx' = idx
              /\ \E r \in Episodes(con', feed_id, feed.item[idx].guid) :
                    r.feed_item_id = feed_item_id'
              /\ \A i \in 1..(idx - 1) :
                    /\ Episodes(con, feed_id, feed.item[i].guid) # {}
                    /\ exists(ResolvedFor(con, i))
        /\ (pc \in {"exists", "stream"} /\ pc' = "items") => idx' = idx + 1
        /\ (pc = "items" /\ pc' = "items") => FALSE
      ]_vars

\* the second feed of the batch is at its second item, after the first feed
\* was committed and the first item of the second was downloaded
C12_Witness ==
    /\ pc = "exists"
    /\ line = 4
    /\ idx = 2
    /\ outcome[2] = "ok"
    /\ fetched # {}

\* the loop is at an item whose publish date does not match the format
AtBadDate ==
    /\ pc = "items"
    /\ ItemsIterable
    /\ idx <= Len(feed.item)
    /\ ~strptime_ok(feed.item[idx].pubDate)

\* C13 as stated: an item whose date does not match is passed over, the loop
\* goes on with the next item and the feed is not failed.
C13_BadDateSkipsItem ==
    [][ AtBadDate => (pc' = "items" /\ idx' = idx + 1 /\ con' = con) ]_vars

\* C13 amended: an item whose date does not match fails the whole feed: the
\* loop stops there, main's handler reports the feed as failed and rolls back
\* every write of the feed, the items before it included; the files already
\* downloaded stay.
C13_BadDateFailsFeed ==
    [][ /\ AtBadDate => (pc' = "except" /\ files' = files /\ idx' = idx)
        /\ ExceptStep =>
              /\ outcome'[line] = "failed"
              /\ db' = db
              /\ con' = db
              /\ files' = files
      ]_vars

\* the second item has a date that does not match, after the first item was
\* upserted and downloaded
C13_Witness ==
    /\ pc = "except"
    /\ idx = 2
    /\ ~strptime_ok(feed.item[idx].pubDate)
    /\ fetched # {}
    /\ con # db

\* the characters safe_filename lets through
Allowed == Alnum \cup {" ", ".", "_", "-"}

\* the characters a file name must not have
Forbidden == {"/", ":", "*", "?", "\"", "<", ">", "|"}

\* the places of s that are held by allowed characters and come no later
\* than the last allowed character that is no white space
KeptPlaces(s) ==
    LET kept == {k \in 1..Len(s) : s[k] \in Allowed}
        last == Max({0} \cup {k \in kept : s[k] \notin Whitespace})
    IN {k \in kept : k <= last}

\* C14: sanitization. What safe_filename returns for fname is the characters
\* of fname at the kept places, in their order: the allowed characters
\* without the trailing white space. It has none of / : * ? " < > | and a
\* second application returns it unchanged.
C14_Sanitization ==
    calls >= 1 =>
        /\ Len(sanitized) = Cardinality(KeptPlaces(fname))
        /\ \A k \in KeptPlaces(fname) :
              sanitized[Cardinality({j \in KeptPlaces(fname) : j <= k})] = fname[k]
        /\ \A i \in 1..Len(sanitized) : sanitized[i] \notin Forbidden
        /\ Len(sanitized) > 0 => sanitized[Len(sanitized)] \notin Whitespace

\* applied twice to a name with a refused character after a space
C14_Witness ==
    /\ calls = 2
    /\ fname = <<"a", " ", "?">>
    /\ sanitized = <<"a">>

\* C16: concurrent passes can break uniqueness. As long as no two passes
\* were between SELECT and commit at the same time, the committed database
\* has one feed row per URL and one feed_item row per feed and guid; the
\* witness is the committed state two overlapping passes reach.
C16_SequentialKeepsUnique ==
    ~overlap =>
        /\ \A f, g \in db.feed : f.feed_url = g.feed_url => f = g
        /\ \A a, b \in db.feed_item :
              (a.feed_id = b.feed_id /\ a.guid = b.guid) => a = b

\* committed: two feed rows for one URL
C16_Witness ==
    /\ lock = 0
    /\ \A s \in Sessions : sess[s].pc = "idle"
    /\ \E f, g \in db.feed : f.feed_url = g.feed_url /\ f.feed_id # g.feed_id

\* C15: stored path reuse. upsert_feed_item leaves item_file at the stored
\* download_path when the row of the episode has one, whatever the titles,
\* season and date of the document are now, and at the canonical path of the
\* current metadata only when it has none; until the item is done, the files
\* written and the download_path recorded are at item_file and nowhere else.
C15_StoredPathReused ==
    [][ /\ UpsertItemStep =>
              LET before == Episodes(con, feed_id, feed.item[idx].guid)
              IN IF \E r \in before : r.download_path # NULL
                 THEN \E r \in before : item_file' = r.download_path
                 ELSE item_file' = CanonicalPath(feed.title, feed.item[idx])
        /\ pc \in {"exists", "stream"} =>
              /\ item_file' \in {item_file, NULL}
              /\ {f \in files : f.path # item_file} = {f \in files' : f.path # item_file}
              /\ \A r \in con'.feed_item :
                    r \in con.feed_item \/ r.download_path = item_file
      ]_vars

\* the existence test is at the stored path of an episode whose document
\* now gives another canonical path
C15_Witness ==
    /\ pc = "exists"
    /\ download_path(con, feed_item_id) # NULL
    /\ item_file = download_path(con, feed_item_id)
    /\ item_file # CanonicalPath(feed.title, feed.item[idx])
    /\ exists(item_file)

\* the step in which a download ends with the UPDATE of download_path
FinishStep == pc = "stream" /\ pc' = "items"

\* C17: re-download of a recorded but missing file. When the episode at the
\* existence test has a stored download_path and no file is there, a request
\* is issued and nothing is written but at the stored path; when that
\* download ends the whole file is at the stored path and the UPDATE writes
\* the value the row already has, so that the database is as before.
C17_RedownloadToStoredPath ==
    [][ /\ (pc = "exists" /\ download_path(con, feed_item_id) # NULL
              /\ ~exists(item_file)) =>
              /\ item_file = download_path(con, feed_item_id)
              /\ gets' = gets + 1
              /\ pc' \in {"stream", "except"}
        /\ (pc = "stream" /\ download_path(con, feed_item_id) # NULL) =>
              /\ item_file = download_path(con, feed_item_id)
              /\ con' = con \/ pc' = "next_line"
              /\ {f \in files : f.path # item_file} = {f \in files' : f.path # item_file}
        /\ (FinishStep /\ download_path(con, feed_item_id) # NULL) =>
              /\ \E f \in files' : f.path = download_path(con, feed_item_id) /\ f.whole
              /\ con' = con
      ]_vars

\* a download to the committed path of an episode has ended in this pass
C17_Witness ==
    /\ pc = "items"
    /\ \E d \in fetched :
          \E r \in db.feed_item :
              r.feed_item_id = d.feed_item_id /\ r.download_path = d.path

\* the items j and i of the feed at hand, j before i, have different guids
\* and one canonical path
Clash(j, i) ==
    /\ j < i
    /\ feed.item[j].guid # feed.item[i].guid
    /\ CanonicalPath(feed.title, feed.item[j]) = CanonicalPath(feed.title, feed.item[i])

\* no committed row of the item i of the feed at hand has a download_path
Unrecorded(i) ==
    \A r \in Episodes(db, feed_id, feed.item[i].guid) : r.download_path = NULL

\* C18: filename collision. When the item at the existence test has no stored
\* path and an earlier item of the document, of another guid and without a
\* recorded path, has the same canonical path, the file is there and the item
\* is passed over: no request, no write, no UPDATE. When such a pass commits,
\* the two items have rows of their own, the later one with a NULL
\* download_path and no download in this pass.
C18_CollisionSkipsSecond ==
    [][ /\ (pc = "exists" /\ download_path(con, feed_item_id) = NULL
              /\ \E j \in 1..(idx - 1) : Clash(j, idx) /\ Unrecorded(j)) =>
              /\ exists(item_file)
              /\ pc' = "items"
              /\ gets' = gets
              /\ files' = files
              /\ con' = con
        /\ CommitStep =>
              \A i \in 1..Len(feed.item) : \A j \in 1..(i - 1) :
                  (Clash(j, i) /\ Unrecorded(j) /\ Unrecorded(i)) =>
                      \E a \in Episodes(db', feed_id, feed.item[j].guid) :
                      \E b \in Episodes(db', feed_id, feed.item[i].guid) :
                          /\ a.feed_item_id # b.feed_item_id
                          /\ b.download_path = NULL
                          /\ \A d \in fetched : d.feed_item_id # b.feed_item_id
      ]_vars

\* committed after the first pass over a feed: two episodes of it with one
\* file name, the first with the path recorded, the second without
C18_Witness ==
    \E a, b \in db.feed_item :
        /\ a.feed_id = b.feed_id
        /\ a.guid # b.guid
        /\ a.feed_item_id < b.feed_item_id
        /\ a.download_path # NULL
        /\ b.download_path = NULL
        /\ a.download_path.name = rstrip(SelectSeq(b.title, KeepChar))
        /\ a.download_path.season = b.itunes_season
        /\ Cardinality({r \in db.raw_feed : r.feed_id = a.feed_id}) = 1

\* C19: recorded path implies file. While nothing outside the program
\* removes files, every committed feed_item row with a download_path has a
\* file at exactly that path.
C19_RecordedImpliesFile ==
    \A r \in db.feed_item :
        r.download_path # NULL => \E f \in files : f.path = r.download_path

\* an episode in a season directory has its path committed
C19_Witness ==
    \E r \in db.feed_item :
        /\ r.download_path # NULL
        /\ r.download_path.season # <<>>
        /\ \E f \in files : f.path = r.download_path /\ f.whole

\* C20: referential integrity of the committed state. Every committed
\* raw_feed row and feed_item row has the feed_id of a committed feed row; no
\* step deletes a committed feed row or gives its feed_id to another URL.
C20_ReferentialIntegrity ==
    [][ /\ \A r \in db'.raw_feed : \E f \in db'.feed : f.feed_id = r.feed_id
        /\ \A r \in db'.feed_item : \E f \in db'.feed : f.feed_id = r.feed_id
        /\ \A f \in db.feed :
              \E g \in db'.feed : g.feed_id = f.feed_id /\ g.feed_url = f.feed_url
        /\ \A f, g \in db'.feed : f.feed_id = g.feed_id => f = g
      ]_vars

\* two feeds are committed, with snapshots and episodes of each, one of them
\* ingested twice
C20_Witness ==
    /\ Cardinality(db.feed) = 2
    /\ \A f \in db.feed :
          /\ \E r \in db.raw_feed : r.feed_id = f.feed_id
          /\ \E r \in db.feed_item : r.feed_id = f.feed_id
    /\ Cardinality(db.raw_feed) > 2

====
